---- MODULE Spec2Model ----
(***************************************************************************)
(* The Rosh Hashana greeting-card page: three views (upload, loading,      *)
(* result), the module-level upload/style state, the asynchronous file     *)
(* read, the generation request to the external service, the download     *)
(* that composes the card on a canvas, and the reset.                      *)
(* The three source variants (index.tsx, part_000, part_001) differ only   *)
(* in the style prompt table and its fallback; `variant` selects one.      *)
(***************************************************************************)
EXTENDS Integers, Sequences, FiniteSets, TLC

\* ------------------------------------------------------------------ bounds
MaxPending == 2      \* file reads that may be pending at once
MaxInflight == 2     \* generation requests that may be awaiting the service
MaxParts == 2        \* content parts in one service response
MaxDecoding == 1     \* downloads whose image is still being decoded
MaxWidth == 500      \* widest image composed on its own (ComposeSpec)
MaxHeight == 2       \* tallest image composed on its own (ComposeSpec)

\* ------------------------------------------------------------ JS values
\* JavaScript null; "" is the empty string. Both are falsy.
Null == "NULL"

Truthy(s) == s # Null /\ s # ""

\* `data:${mimeType};base64,${data}` : a data URL, kept as its two fields.
DataURL(mimeType, data) == <<mimeType, data>>

\* ------------------------------------------------------------ the inputs
Variants == {"index.tsx", "part_000", "part_001"}

Views == {"upload", "loading", "result"}

\* Files the user may pick: file.type is "" when the browser knows no type,
\* and a zero-length file has an empty base64 payload.
Files ==
    { [type |-> "image/jpeg", data |-> "SlBH"],
      [type |-> "",           data |-> "UE5H"],
      [type |-> "image/png",  data |-> ""] }

\* The data-style values of the .style-option buttons of the page: a key
\* every variant's prompt table has, and one only the table of index.tsx has.
ButtonStyles == {"childish", "floral"}

\* Content parts of a service response: text, or inline image data.
TextPart == [text |-> "refused"]

ImageParts ==
    { [inlineData |-> [data |-> "R0VOMQ", mimeType |-> "image/png"]],
      [inlineData |-> [data |-> "R0VOMg", mimeType |-> "image/jpeg"]] }

PartLists == UNION { [1..n -> {TextPart} \cup ImageParts] : n \in 0..MaxParts }

\* What the awaited generateContent call may produce: a rejection, a
\* response without candidates, or a response whose first candidate
\* carries a list of parts.
Responses ==
    { [rejected |-> TRUE, candidates |-> <<>>],
      [rejected |-> FALSE, candidates |-> <<>>] }
    \cup { [rejected |-> FALSE, candidates |-> <<[content |-> [parts |-> ps]]>>] :
             ps \in PartLists }

\* lastResp holds <<response>> after a settled generation, <<>> otherwise.
NoResponse == <<>>

\* ------------------------------------------------------------- the state
\* imagePreview.src is written by the handlers and read by none of them; it
\* is presentation only and is not kept.
VARIABLES
    variant,               \* which source file is running
    apiKeyOk,              \* process.env.API_KEY is set (constructor does not throw)
    uploadedImageBase64,   \* let uploadedImageBase64
    uploadedImageType,     \* let uploadedImageType
    selectedStyle,         \* let selectedStyle
    viewHidden,            \* 'hidden' class of upload-view, loading-view, result-view
    previewHidden,         \* 'hidden' class of image-preview-container
    styleSelectionHidden,  \* 'hidden' class of style-selection
    generateHidden,        \* 'hidden' class of generate-button
    generateDisabled,      \* generateButton.disabled
    uploadText,            \* uploadText.textContent
    resultImageSrc,        \* resultImage.src
    selectedButtons,       \* the style options carrying class 'selected'
    fileInput,             \* fileUpload.files: <<file>> for the file the input holds, <<>> if none
    pendingReads,          \* files whose fileToBase64 promise is not settled, oldest first
    inflight,              \* requests sent to the service and not answered, oldest first
    decoding,              \* download images whose onload/onerror has not fired, oldest first
    alertMsg,              \* the alert() the last handler run raised, "none" if none
    snapshots,             \* observer: for each pending read, the upload state its selection found
    batchFailed,           \* observer: a read was rejected since the input last went from idle to reading
    lastResp,              \* observer: what the service answered in the last handler run
    lastOp                 \* the last handler run: its name, outcome and showView target

vars ==
    << variant, apiKeyOk, uploadedImageBase64, uploadedImageType, selectedStyle,
       viewHidden, previewHidden, styleSelectionHidden, generateHidden,
       generateDisabled, uploadText, resultImageSrc, selectedButtons,
       fileInput, pendingReads, inflight, decoding, alertMsg, snapshots, batchFailed,
       lastResp, lastOp >>

\* The observer variables: read by no handler; `readObservers` are written by
\* ObservedSpec only and lastResp by ResponseSpec only.
readObservers == << snapshots, batchFailed >>

observers == << snapshots, batchFailed, lastResp >>

\* lastOp.canvas holds <<canvas>> after a download that composed one.
NoCanvas == <<>>

Op(name, outcome, shown) ==
    [op |-> name, outcome |-> outcome, shown |-> shown, canvas |-> NoCanvas]

\* --------------------------------------------------------------- helpers
\* Faulty variant: showView that reveals the target and forgets to hide the others.
ShowViewKeepsOthers(hidden, viewToShow) == [hidden EXCEPT ![viewToShow] = FALSE]

\* showView: add 'hidden' to the three views, then remove it from the target.
ShowView(hidden, viewToShow) ==
    LET allHidden == [v \in Views |-> TRUE]
    IN  [allHidden EXCEPT ![viewToShow] = FALSE]

\* Faulty variant: updateGenerateButtonState with || in place of &&.
UpdateGenerateButtonStateOr(base64, style) == ~(Truthy(base64) \/ Truthy(style))

\* updateGenerateButtonState: the value given to generateButton.disabled.
UpdateGenerateButtonState(base64, style) == ~(Truthy(base64) /\ Truthy(style))

\* fileToBase64: readAsDataURL gives "data:<type>;base64,<payload>", and
\* split(',')[1] keeps the payload.
ReadAsDataURL(file) == DataURL(file.type, file.data)

FileToBase64(file) == ReadAsDataURL(file)[2]

\* The style prompt tables (the long prompt texts are abbreviated to tags;
\* entries whose text differs between variants get different tags).
StylePromptsIndex ==
    [ childish  |-> "redraw-childish",
      festive   |-> "renaissance-festive",
      natural   |-> "frame-only-natural",
      nostalgic |-> "postcard-nostalgic",
      floral    |-> "flower-field",
      sketch    |-> "pencil-sketch" ]

StylePromptsPart001 ==
    [ childish  |-> "redraw-childish",
      festive   |-> "renaissance-festive",
      natural   |-> "airy-natural",
      nostalgic |-> "postcard-nostalgic" ]

StylePromptsPart000 ==
    [ childish  |-> "in a cute, colorful, and childish drawing style",
      festive   |-> "in a luxurious and festive style with elegant gold elements",
      natural   |-> "in a natural, organic style",
      nostalgic |-> "with a nostalgic, vintage postcard look" ]

StylePrompts(v) ==
    IF v = "index.tsx" THEN StylePromptsIndex
    ELSE IF v = "part_001" THEN StylePromptsPart001
    ELSE StylePromptsPart000

\* stylePrompts[selectedStyle]: undefined (here Null) for a key the table lacks.
Lookup(table, key) == IF key \in DOMAIN table THEN table[key] ELSE Null

\* index.tsx, part_001: prompt = stylePrompts[selectedStyle] || stylePrompts['festive']
Prompt(table, style) ==
    LET entry == Lookup(table, style)
    IN  <<IF Truthy(entry) THEN entry ELSE table["festive"]>>

\* part_000: specificPrompt = stylePrompts[selectedStyle] || 'in a festive style',
\* spliced into the base prompt.
BasePrompt(table, style) ==
    LET entry == Lookup(table, style)
        specificPrompt == IF Truthy(entry) THEN entry ELSE "in a festive style"
    IN  <<"Create a beautiful, decorative frame", specificPrompt>>

\* The text part of the request of the running variant.
PromptText(v, style) ==
    IF v = "part_000" THEN BasePrompt(StylePrompts(v), style)
    ELSE Prompt(StylePrompts(v), style)

Undefined == [undefined |-> TRUE]

HasInlineData(part) == "inlineData" \in DOMAIN part

\* Faulty variant: a findLast in place of find: the last part with inline data.
FindLastFrom(parts, i) ==
    LET hits == { k \in i..Len(parts) : HasInlineData(parts[k]) }
    IN  IF hits = {} THEN Undefined
        ELSE parts[CHOOSE k \in hits : \A m \in hits : m <= k]

\* Array.prototype.find(part => part.inlineData), scanning from index i.
RECURSIVE FindFrom(_, _)
FindFrom(parts, i) ==
    IF i > Len(parts) THEN Undefined
    ELSE IF HasInlineData(parts[i]) THEN parts[i]
    ELSE FindFrom(parts, i + 1)

\* response.candidates?.[0]?.content?.parts?.find(part => part.inlineData)
ImagePartOf(response) ==
    IF response.candidates = <<>> THEN Undefined
    ELSE FindFrom(response.candidates[1].content.parts, 1)

\* Where the controls sit in the page: the file input, the style options and
\* the generate button in the upload view, download and reset in the result
\* view. A control of a hidden view, a hidden control and a disabled button
\* receive no user event.
UploadViewUsable == ~viewHidden["upload"]

ResultViewUsable == ~viewHidden["result"]

\* ------------------------------------------------------------------ Init
\* The module-level state and the page after the top-level showView('upload').
Init ==
    /\ variant \in Variants
    /\ apiKeyOk \in BOOLEAN
    /\ uploadedImageBase64 = Null
    /\ uploadedImageType = Null
    /\ selectedStyle = Null
    /\ viewHidden = ShowView([v \in Views |-> TRUE], "upload")
    /\ previewHidden = TRUE
    /\ styleSelectionHidden = TRUE
    /\ generateHidden = TRUE
    /\ generateDisabled = TRUE
    /\ uploadText = "upload"
    /\ resultImageSrc = <<>>
    /\ selectedButtons = {}
    /\ fileInput = <<>>
    /\ pendingReads = <<>>
    /\ snapshots = <<>>
    /\ batchFailed = FALSE
    /\ lastResp = NoResponse
    /\ inflight = <<>>
    /\ decoding = <<>>
    /\ alertMsg = "none"
    /\ lastOp = Op("init", "ok", "upload")

\* --------------------------------------------------------------- actions
\* The upload state a failed read is to leave as it was.
UploadState ==
    [ base64   |-> uploadedImageBase64,
      type     |-> uploadedImageType,
      disabled |-> generateDisabled ]

\* fileUpload 'change' (fired when the input's file changes), up to the
\* await: the MIME type is stored at once and the read starts.
SelectFile(file) ==
    /\ UploadViewUsable
    /\ fileInput # <<file>>
    /\ Len(pendingReads) < MaxPending
    /\ fileInput' = <<file>>
    /\ uploadedImageType' = file.type
    /\ pendingReads' = Append(pendingReads, file)
    /\ alertMsg' = "none"
    /\ lastOp' = Op("selectFile", "started", "none")
    /\ UNCHANGED << variant, apiKeyOk, decoding, uploadedImageBase64, selectedStyle, viewHidden,
                    previewHidden, styleSelectionHidden, generateHidden,
                    generateDisabled, uploadText, resultImageSrc,
                    selectedButtons, inflight >>

\* Faulty variant: the settled entry stays in the sequence (a failed request
\* stays in flight, as a retry would leave it).
RemoveAtKeeps(seq, i) == seq

RemoveAt(seq, i) == SubSeq(seq, 1, i - 1) \o SubSeq(seq, i + 1, Len(seq))

\* fileUpload 'change', after the await resolved: the i-th pending read
\* delivers its payload.
ReadResolved(i) ==
    /\ i \in 1..Len(pendingReads)
    /\ LET base64 == FileToBase64(pendingReads[i])
       IN  /\ uploadedImageBase64' = base64
           /\ generateDisabled' = UpdateGenerateButtonState(base64, selectedStyle)
    /\ previewHidden' = FALSE
    /\ styleSelectionHidden' = FALSE
    /\ generateHidden' = FALSE
    /\ uploadText' = "replace"
    /\ pendingReads' = RemoveAt(pendingReads, i)
    /\ alertMsg' = "none"
    /\ lastOp' = Op("readFile", "resolved", "none")
    /\ UNCHANGED << fileInput, variant, apiKeyOk, decoding, uploadedImageType,
                    selectedStyle, viewHidden, resultImageSrc, selectedButtons,
                    inflight >>

\* fileUpload 'change', after the await rejected (reader.onerror): the catch
\* block logs and alerts.
ReadRejected(i) ==
    /\ i \in 1..Len(pendingReads)
    /\ pendingReads' = RemoveAt(pendingReads, i)
    /\ alertMsg' = "file"
    /\ lastOp' = Op("readFile", "rejected", "none")
    /\ UNCHANGED << fileInput, variant, apiKeyOk, decoding, uploadedImageBase64, uploadedImageType,
                    selectedStyle, viewHidden, previewHidden, styleSelectionHidden,
                    generateHidden, generateDisabled, uploadText,
                    resultImageSrc, selectedButtons, inflight >>

\* Faulty variant: a style click that leaves the other options marked.
StyleClickKeepsOthers(key) ==
    /\ UploadViewUsable
    /\ ~styleSelectionHidden
    /\ selectedButtons' = selectedButtons \cup {key}
    /\ selectedStyle' = (IF Truthy(key) THEN key ELSE Null)
    /\ generateDisabled' = UpdateGenerateButtonState(uploadedImageBase64, selectedStyle')
    /\ alertMsg' = "none"
    /\ lastOp' = Op("styleClick", "ok", "none")
    /\ UNCHANGED << fileInput, variant, apiKeyOk, decoding, uploadedImageBase64, uploadedImageType,
                    viewHidden, previewHidden, styleSelectionHidden, generateHidden,
                    uploadText, resultImageSrc, pendingReads, inflight >>

\* Click on the style option whose data-style is `key`.
StyleClick(key) ==
    /\ UploadViewUsable
    /\ ~styleSelectionHidden
    /\ selectedButtons' = (selectedButtons \ ButtonStyles) \cup {key}
    /\ selectedStyle' = (IF Truthy(key) THEN key ELSE Null)
    /\ generateDisabled' = UpdateGenerateButtonState(uploadedImageBase64, selectedStyle')
    /\ alertMsg' = "none"
    /\ lastOp' = Op("styleClick", "ok", "none")
    /\ UNCHANGED << fileInput, variant, apiKeyOk, decoding, uploadedImageBase64, uploadedImageType,
                    viewHidden, previewHidden, styleSelectionHidden, generateHidden,
                    uploadText, resultImageSrc, pendingReads, inflight >>

\* Faulty variant: a catch block that alerts and forgets showView('upload').
GenerationFailedStaysPut(hidden, outcome) ==
    /\ alertMsg' = "generation"
    /\ viewHidden' = hidden
    /\ lastOp' = Op("generate", outcome, "upload")
    /\ UNCHANGED resultImageSrc

\* The catch block of the generate handler: log, alert, showView('upload').
\* `hidden` is the views' state when the exception is caught.
GenerationFailed(hidden, outcome) ==
    /\ alertMsg' = "generation"
    /\ viewHidden' = ShowView(hidden, "upload")
    /\ lastOp' = Op("generate", outcome, "upload")
    /\ UNCHANGED resultImageSrc

\* Faulty variant: the success branch without its showView('result').
GenerationSucceededNoShow(imagePart) ==
    /\ resultImageSrc' = DataURL(imagePart.inlineData.mimeType, imagePart.inlineData.data)
    /\ viewHidden' = viewHidden
    /\ alertMsg' = "none"
    /\ lastOp' = Op("generate", "succeeded", "result")

\* The success branch of the generate handler: resultImage.src, showView('result').
GenerationSucceeded(imagePart) ==
    /\ resultImageSrc' = DataURL(imagePart.inlineData.mimeType, imagePart.inlineData.data)
    /\ viewHidden' = ShowView(viewHidden, "result")
    /\ alertMsg' = "none"
    /\ lastOp' = Op("generate", "succeeded", "result")

\* Faulty variant: a guard that forgets the MIME type.
GuardRejectsIgnoringType(base64, style, type) ==
    ~Truthy(base64) \/ ~Truthy(style)

\* if (!uploadedImageBase64 || !selectedStyle || !uploadedImageType)
GuardRejects(base64, style, type) ==
    ~Truthy(base64) \/ ~Truthy(style) \/ ~Truthy(type)

\* Click on the generate button: the guard, showView('loading'), the prompt,
\* and the call of generateContent up to its await.
GenerateClick ==
    /\ UploadViewUsable
    /\ ~generateHidden
    /\ ~generateDisabled
    /\ Len(inflight) < MaxInflight
    /\ IF GuardRejects(uploadedImageBase64, selectedStyle, uploadedImageType)
       THEN /\ alertMsg' = "precondition"
            /\ lastOp' = Op("generate", "rejected", "none")
            /\ UNCHANGED << viewHidden, inflight, resultImageSrc >>
       ELSE IF ~apiKeyOk
       THEN /\ GenerationFailed(ShowView(viewHidden, "loading"), "constructorThrew")
            /\ UNCHANGED inflight
       ELSE /\ viewHidden' = ShowView(viewHidden, "loading")
            /\ inflight' = Append(inflight,
                                  [ data     |-> uploadedImageBase64,
                                    mimeType |-> uploadedImageType,
                                    text     |-> PromptText(variant, selectedStyle) ])
            /\ alertMsg' = "none"
            /\ lastOp' = Op("generate", "sent", "loading")
            /\ UNCHANGED resultImageSrc
    /\ UNCHANGED << fileInput, variant, apiKeyOk, decoding, uploadedImageBase64, uploadedImageType,
                    selectedStyle, previewHidden, styleSelectionHidden, generateHidden,
                    generateDisabled, uploadText, selectedButtons,
                    pendingReads >>

\* The generate handler after its await: the service answered the i-th
\* request with `response` (or rejected it).
GenerateSettled(i, response) ==
    /\ i \in 1..Len(inflight)
    /\ inflight' = RemoveAt(inflight, i)
    /\ IF response.rejected
       THEN GenerationFailed(viewHidden, "serviceError")
       ELSE LET imagePart == ImagePartOf(response)
            IN  IF HasInlineData(imagePart)
                THEN GenerationSucceeded(imagePart)
                ELSE GenerationFailed(viewHidden, "noImage")
    /\ UNCHANGED << fileInput, variant, apiKeyOk, decoding, uploadedImageBase64, uploadedImageType,
                    selectedStyle, previewHidden, styleSelectionHidden, generateHidden,
                    generateDisabled, uploadText, selectedButtons,
                    pendingReads >>

\* Click on the reset button.
Reset ==
    /\ ResultViewUsable
    /\ uploadedImageBase64' = Null
    /\ uploadedImageType' = Null
    /\ selectedStyle' = Null
    /\ previewHidden' = TRUE
    /\ styleSelectionHidden' = TRUE
    /\ generateHidden' = TRUE
    /\ generateDisabled' = TRUE
    /\ uploadText' = "upload"
    /\ selectedButtons' = selectedButtons \ ButtonStyles
    /\ viewHidden' = ShowView(viewHidden, "upload")
    /\ alertMsg' = "none"
    /\ lastOp' = Op("reset", "ok", "upload")
    /\ fileInput' = <<>>
    /\ UNCHANGED << variant, apiKeyOk, decoding, resultImageSrc, pendingReads, inflight >>

\* ---------------------------------------------------------- the download
\* The pixel size the browser decodes an image to: the two images the
\* service returns here are a 1200x800 and a 500x500 one.
NaturalSize(src) ==
    IF src = <<"image/png", "R0VOMQ">>
    THEN [naturalWidth |-> 1200, naturalHeight |-> 800]
    ELSE [naturalWidth |-> 500, naturalHeight |-> 500]

\* new Image() with image.src = resultImage.src
NewImage(src) ==
    [ src           |-> src,
      naturalWidth  |-> NaturalSize(src).naturalWidth,
      naturalHeight |-> NaturalSize(src).naturalHeight ]

Max(a, b) == IF a >= b THEN a ELSE b

\* FONT_SIZE = Math.max(40, image.naturalWidth / 12), in twelfths of a pixel.
FontSize12(image) == Max(40 * 12, image.naturalWidth)

\* Faulty variant: a padding of 1.3 times the font size (in 24ths, rounded down).
BottomPadding24Short(image) == (FontSize12(image) * 26) \div 10

\* BOTTOM_PADDING = FONT_SIZE * 1.5, in 24ths of a pixel.
BottomPadding24(image) == FontSize12(image) * 3

\* Assigning a number to canvas.width or canvas.height (an unsigned long
\* attribute) drops its fraction; `n24` is the number in 24ths of a pixel.
ToUnsignedLong24(n24) == n24 \div 24

\* image.onload: the canvas and the caption position. textX is kept in
\* halves of a pixel and textY in 48ths.
ComposeCard(image) ==
    LET width == ToUnsignedLong24(24 * image.naturalWidth)
        height == ToUnsignedLong24(24 * image.naturalHeight + BottomPadding24(image))
    IN  [ width   |-> width,
          height  |-> height,
          textX2  |-> width,
          textY48 |-> 48 * image.naturalHeight + BottomPadding24(image),
          file    |-> "rosh-hashanah-card.png" ]

\* Faulty variant: a download that falls back to the upload view, as a
\* failed generation does.
DownloadFrameShowsUpload ==
    /\ viewHidden' = ShowView(viewHidden, "upload")
    /\ UNCHANGED << variant, apiKeyOk, uploadedImageBase64, uploadedImageType,
                    selectedStyle, previewHidden, styleSelectionHidden,
                    generateHidden, generateDisabled, uploadText, resultImageSrc,
                    selectedButtons, fileInput, pendingReads, inflight >>

\* What the download handler and its image callbacks leave alone: every state
\* variable and every element but the canvas and the link they create.
DownloadFrame ==
    UNCHANGED << variant, apiKeyOk, uploadedImageBase64, uploadedImageType,
                 selectedStyle, viewHidden, previewHidden, styleSelectionHidden,
                 generateHidden, generateDisabled, uploadText, resultImageSrc,
                 selectedButtons, fileInput, pendingReads, inflight >>

\* Click on the download button: a new Image starts loading resultImage.src.
DownloadClick ==
    /\ ResultViewUsable
    /\ Len(decoding) < MaxDecoding
    /\ decoding' = Append(decoding, NewImage(resultImageSrc))
    /\ alertMsg' = "none"
    /\ lastOp' = Op("download", "started", "none")
    /\ DownloadFrame

\* image.onload of the i-th image being decoded: without a 2d context the
\* handler alerts and returns, otherwise it composes the card and clicks the link.
ImageLoaded(i, hasContext) ==
    /\ i \in 1..Len(decoding)
    /\ decoding' = RemoveAt(decoding, i)
    /\ IF hasContext
       THEN /\ alertMsg' = "none"
            /\ lastOp' = [Op("download", "composed", "none")
                             EXCEPT !.canvas = <<ComposeCard(decoding[i])>>]
       ELSE /\ alertMsg' = "canvas"
            /\ lastOp' = Op("download", "noContext", "none")
    /\ DownloadFrame

\* image.onerror of the i-th image being decoded.
ImageLoadFailed(i) ==
    /\ i \in 1..Len(decoding)
    /\ decoding' = RemoveAt(decoding, i)
    /\ alertMsg' = "download"
    /\ lastOp' = Op("download", "loadFailed", "none")
    /\ DownloadFrame

Next ==
    \/ (\E file \in Files : SelectFile(file)) /\ UNCHANGED observers
    \/ (\E i \in 1..MaxPending : ReadResolved(i)) /\ UNCHANGED observers
    \/ (\E i \in 1..MaxPending : ReadRejected(i)) /\ UNCHANGED observers
    \/ (\E key \in ButtonStyles : StyleClick(key)) /\ UNCHANGED observers
    \/ GenerateClick /\ UNCHANGED observers
    \/ (\E i \in 1..MaxInflight, response \in Responses : GenerateSettled(i, response))
          /\ UNCHANGED observers
    \/ Reset /\ UNCHANGED observers
    \/ DownloadClick /\ UNCHANGED observers
    \/ (\E i \in 1..MaxDecoding, hasContext \in BOOLEAN : ImageLoaded(i, hasContext))
          /\ UNCHANGED observers
    \/ (\E i \in 1..MaxDecoding : ImageLoadFailed(i)) /\ UNCHANGED observers

Spec == Init /\ [][Next]_vars

\* The awaited service call settles: the service answers or the transport
\* gives up, and the handler's continuation runs.
ServiceSettles ==
    (\E i \in 1..MaxInflight, response \in Responses : GenerateSettled(i, response))
        /\ UNCHANGED observers

LiveSpec == Spec /\ WF_vars(ServiceSettles)

\* The same program with the observers switched on: each selection records
\* the upload state it found, and a rejected read marks the batch as failed.
ObservedSelectFile(file) ==
    /\ SelectFile(file)
    /\ snapshots' = Append(snapshots, UploadState)
    /\ batchFailed' = (pendingReads # <<>> /\ batchFailed)
    /\ UNCHANGED lastResp

ObservedReadResolved(i) ==
    /\ ReadResolved(i)
    /\ snapshots' = RemoveAt(snapshots, i)
    /\ UNCHANGED << batchFailed, lastResp >>

ObservedReadRejected(i) ==
    /\ ReadRejected(i)
    /\ snapshots' = RemoveAt(snapshots, i)
    /\ batchFailed' = TRUE
    /\ UNCHANGED lastResp

ObservedNext ==
    \/ \E file \in Files : ObservedSelectFile(file)
    \/ \E i \in 1..MaxPending : ObservedReadResolved(i)
    \/ \E i \in 1..MaxPending : ObservedReadRejected(i)
    \/ (\E key \in ButtonStyles : StyleClick(key)) /\ UNCHANGED observers
    \/ GenerateClick /\ UNCHANGED observers
    \/ (\E i \in 1..MaxInflight, response \in Responses : GenerateSettled(i, response))
          /\ UNCHANGED observers
    \/ Reset /\ UNCHANGED observers
    \/ DownloadClick /\ UNCHANGED observers
    \/ (\E i \in 1..MaxDecoding, hasContext \in BOOLEAN : ImageLoaded(i, hasContext))
          /\ UNCHANGED observers
    \/ (\E i \in 1..MaxDecoding : ImageLoadFailed(i)) /\ UNCHANGED observers

ObservedSpec == Init /\ [][ObservedNext]_vars

\* The same program with the response observer switched on: the handler run
\* that settles a generation records what the service answered.
ResponseNext ==
    \/ (\E file \in Files : SelectFile(file)) /\ lastResp' = NoResponse
    \/ (\E i \in 1..MaxPending : ReadResolved(i)) /\ lastResp' = NoResponse
    \/ (\E i \in 1..MaxPending : ReadRejected(i)) /\ lastResp' = NoResponse
    \/ (\E key \in ButtonStyles : StyleClick(key)) /\ lastResp' = NoResponse
    \/ GenerateClick /\ lastResp' = NoResponse
    \/ \E i \in 1..MaxInflight, response \in Responses :
          GenerateSettled(i, response) /\ lastResp' = <<response>>
    \/ Reset /\ lastResp' = NoResponse
    \/ DownloadClick /\ lastResp' = NoResponse
    \/ (\E i \in 1..MaxDecoding, hasContext \in BOOLEAN : ImageLoaded(i, hasContext))
          /\ lastResp' = NoResponse
    \/ (\E i \in 1..MaxDecoding : ImageLoadFailed(i)) /\ lastResp' = NoResponse

ResponseSpec == Init /\ [][ResponseNext /\ UNCHANGED readObservers]_vars

\* The download's composition on its own: the result view, a download
\* started, and a decoded image of any size in the bounds (the service's
\* image may have any size).
ComposeInit ==
    /\ variant = "index.tsx"
    /\ apiKeyOk = TRUE
    /\ uploadedImageBase64 = "SlBH"
    /\ uploadedImageType = "image/jpeg"
    /\ selectedStyle = "childish"
    /\ viewHidden = ShowView([v \in Views |-> TRUE], "result")
    /\ previewHidden = FALSE
    /\ styleSelectionHidden = FALSE
    /\ generateHidden = FALSE
    /\ generateDisabled = UpdateGenerateButtonState("SlBH", "childish")
    /\ uploadText = "replace"
    /\ resultImageSrc = DataURL("image/png", "R0VOMQ")
    /\ selectedButtons = {"childish"}
    /\ fileInput = << [type |-> "image/jpeg", data |-> "SlBH"] >>
    /\ pendingReads = <<>>
    /\ snapshots = <<>>
    /\ batchFailed = FALSE
    /\ lastResp = NoResponse
    /\ inflight = <<>>
    /\ \E w \in 1..MaxWidth, h \in 1..MaxHeight :
          decoding = << [ src           |-> resultImageSrc,
                          naturalWidth  |-> w,
                          naturalHeight |-> h ] >>
    /\ alertMsg = "none"
    /\ lastOp = Op("download", "started", "none")

ComposeNext ==
    \/ (\E i \in 1..MaxDecoding, hasContext \in BOOLEAN : ImageLoaded(i, hasContext))
          /\ UNCHANGED observers
    \/ (\E i \in 1..MaxDecoding : ImageLoadFailed(i)) /\ UNCHANGED observers

ComposeSpec == ComposeInit /\ [][ComposeNext]_vars

\* ---------------------------------------------------------------- claims
Visible == { v \in Views : ~viewHidden[v] }

\* The parts of the first candidate of a response, <<>> when there is none.
PartsOf(response) ==
    IF response.candidates = <<>> THEN <<>> ELSE response.candidates[1].content.parts

\* The last handler run was the continuation of a generation the service settled.
Settled == lastOp.op = "generate" /\ lastResp # NoResponse

InlineIndexes(response) ==
    { i \in 1..Len(PartsOf(response)) : HasInlineData(PartsOf(response)[i]) }

\* C1: in every reachable state the generate control is enabled if and only
\* if an uploaded image and a style key are both stored (stored as the code
\* tests it: a non-null, non-empty value).
C1_GenerateEnabledIffImageAndStyle ==
    (~generateDisabled) <=> (Truthy(uploadedImageBase64) /\ Truthy(selectedStyle))

C1_Witness ==
    /\ ~generateDisabled
    /\ lastOp.op = "readFile" /\ lastOp.outcome = "resolved"
    /\ resultImageSrc # <<>>

\* C2: in every reachable state exactly one of the three views is visible,
\* the view visible at startup is upload, and after a handler that called
\* showView(target) exactly the target is visible.
C2_ExactlyOneViewVisible ==
    /\ Cardinality(Visible) = 1
    /\ lastOp.op = "init" => Visible = {"upload"}
    /\ lastOp.shown # "none" => Visible = {lastOp.shown}

C2_Witness == lastOp.shown = "result" /\ Visible = {"result"}

\* C3: a step in which a started generation fails, by a response without an
\* inline-image part or by an error of the service call, alerts the user,
\* leaves exactly the upload view visible and leaves the result image as it was.
C3_FailureRecoversToUpload ==
    [][ ( /\ lastOp'.op = "generate"
          /\ \/ lastOp'.outcome = "constructorThrew"
             \/ /\ lastResp' # NoResponse
                /\ (lastResp'[1].rejected \/ InlineIndexes(lastResp'[1]) = {}) )
        => ( /\ alertMsg' = "generation"
             /\ viewHidden' = [v \in Views |-> v # "upload"]
             /\ resultImageSrc' = resultImageSrc ) ]_vars

C3_Witness ==
    /\ Settled /\ lastResp[1].rejected
    /\ alertMsg = "generation"
    /\ Visible = {"upload"}
    /\ resultImageSrc # <<>>

\* C4: under fairness of the service settling the request, a visible loading
\* view is always followed by a visible result or upload view.
C4_LoadingLeadsOut ==
    (Visible = {"loading"}) ~> (Visible = {"result"} \/ Visible = {"upload"})

C4_Witness == Visible = {"loading"} /\ Len(inflight) = 1 /\ pendingReads # <<>>

\* C5: after a response that contains an inline-image part the result view
\* is the visible one and the result image carries the bytes and the MIME
\* type of an inline-image part of that response.
C5_ImageResponseShowsResult ==
    (Settled /\ ~lastResp[1].rejected /\ InlineIndexes(lastResp[1]) # {})
        => /\ Visible = {"result"}
           /\ \E i \in InlineIndexes(lastResp[1]) :
                 LET part == PartsOf(lastResp[1])[i].inlineData
                 IN  /\ resultImageSrc[1] = part.mimeType
                     /\ resultImageSrc[2] = part.data

C5_Witness ==
    /\ Settled /\ InlineIndexes(lastResp[1]) # {}
    /\ Visible = {"result"}
    /\ resultImageSrc = <<"image/jpeg", "R0VOMg">>

\* C6: the generated image is the first part, in list order, that carries
\* inline image data: text parts before it are skipped, later parts are
\* ignored, and a response without such a part fails the generation.
C6_FirstInlinePartWins ==
    (Settled /\ ~lastResp[1].rejected) =>
        LET parts == PartsOf(lastResp[1])
            hits == InlineIndexes(lastResp[1])
        IN  /\ \A i \in hits :
                  (\A j \in hits : i <= j)
                      => /\ lastOp.outcome = "succeeded"
                         /\ resultImageSrc = <<parts[i].inlineData.mimeType,
                                               parts[i].inlineData.data>>
            /\ hits = {} => (lastOp.outcome = "noImage" /\ alertMsg = "generation")

C6_Witness ==
    /\ Settled
    /\ InlineIndexes(lastResp[1]) = {1, 2}
    /\ PartsOf(lastResp[1])[1] # PartsOf(lastResp[1])[2]
    /\ resultImageSrc = <<PartsOf(lastResp[1])[1].inlineData.mimeType,
                          PartsOf(lastResp[1])[1].inlineData.data>>

\* The style-specific text of a request: the whole prompt in index.tsx and
\* part_001, the part spliced into the base prompt in part_000.
StyleTextOf(request) == request.text[Len(request.text)]

\* C7: a request started with a style key the prompt table lacks carries the
\* table's "festive" entry, and one started with a key of the table carries
\* that key's entry.
C7_PromptFallsBackToFestive ==
    (lastOp.op = "generate" /\ lastOp.outcome = "sent") =>
        LET table == StylePrompts(variant)
            request == inflight[Len(inflight)]
        IN  StyleTextOf(request) =
                IF selectedStyle \in DOMAIN table THEN table[selectedStyle]
                ELSE table["festive"]

\* C8: after a reset the uploaded image, its MIME type, the style key and
\* the generated image are all cleared, the upload view is the visible one
\* and the generate control is disabled.
C8_ResetClearsEverything ==
    lastOp.op = "reset" =>
        /\ uploadedImageBase64 = Null
        /\ uploadedImageType = Null
        /\ selectedStyle = Null
        /\ resultImageSrc = <<>>
        /\ Visible = {"upload"}
        /\ generateDisabled

\* C9: whenever the loading view is not the visible one, a generated image
\* is stored if and only if the result view is the visible one.
C9_GeneratedImageIffResult ==
    Visible # {"loading"} => ((resultImageSrc # <<>>) <=> Visible = {"result"})

C11_AtMostOneInFlight == Len(inflight) <= 1

C11_Witness ==
    /\ Len(inflight) = 1
    /\ resultImageSrc # <<>>
    /\ pendingReads # <<>>

\* C12: a step in which the read of a selected file fails alerts the user and
\* leaves the stored bytes, the stored MIME type and the generate control's
\* disabled flag as the selection of that file found them.
C12_FailedReadLeavesStateUntouched ==
    [][ (lastOp'.op = "readFile" /\ lastOp'.outcome = "rejected")
        => /\ alertMsg' = "file"
           /\ \E i \in 1..Len(snapshots) :
                 /\ pendingReads' = RemoveAt(pendingReads, i)
                 /\ snapshots' = RemoveAt(snapshots, i)
                 /\ uploadedImageBase64' = snapshots[i].base64
                 /\ uploadedImageType' = snapshots[i].type
                 /\ generateDisabled' = snapshots[i].disabled ]_vars

\* C13: once no read is pending and none of the batch was rejected, the
\* stored bytes and the stored MIME type are those of the file selected last
\* (the file the input holds).
C13_LatestSelectionWins ==
    (pendingReads = <<>> /\ fileInput # <<>> /\ ~batchFailed)
        => /\ uploadedImageBase64 = FileToBase64(fileInput[1])
           /\ uploadedImageType = fileInput[1].type

\* The step is image.onload composing the card for `image`.
Composes(image) ==
    /\ lastOp'.op = "download" /\ lastOp'.outcome = "composed"
    /\ \E i \in 1..Len(decoding) :
          decoding[i] = image /\ decoding' = RemoveAt(decoding, i)

\* C14 as stated: for a source image of width w and height h the canvas is
\* w wide and exactly h + band high, with fontSize = max(40, w / 12) and
\* band = 1.5 x fontSize, and the caption is drawn at x = w / 2,
\* y = h + band / 2. (fontSize in 12ths of a pixel, band in 24ths.)
C14_CanvasIsImagePlusBand ==
    [][ \A image \in { decoding[i] : i \in 1..Len(decoding) } :
          Composes(image) =>
            LET w == image.naturalWidth
                h == image.naturalHeight
                fontSize12 == IF w > 480 THEN w ELSE 480
                band24 == 3 * fontSize12
                canvas == lastOp'.canvas[1]
            IN  /\ canvas.width = w
                /\ 24 * canvas.height = 24 * h + band24
                /\ canvas.textX2 = w
                /\ canvas.textY48 = 48 * h + band24 ]_vars

\* C14 amended: the canvas is w wide and floor(h + band) high (a canvas height
\* is a whole number of pixels); the caption is drawn at x = w / 2,
\* y = h + band / 2 with the unrounded band.
C14_CanvasIsImagePlusBandFloored ==
    [][ \A image \in { decoding[i] : i \in 1..Len(decoding) } :
          Composes(image) =>
            LET w == image.naturalWidth
                h == image.naturalHeight
                fontSize12 == IF w > 480 THEN w ELSE 480
                band24 == 3 * fontSize12
                canvas == lastOp'.canvas[1]
            IN  /\ canvas.width = w
                /\ 24 * canvas.height <= 24 * h + band24
                /\ 24 * (canvas.height + 1) > 24 * h + band24
                /\ canvas.textX2 = w
                /\ canvas.textY48 = 48 * h + band24 ]_vars

\* A 500 x 2 image composed: the band is 62.5 px and the canvas 64 px high.
C14_Witness ==
    /\ lastOp.outcome = "composed"
    /\ lastOp.canvas = << [ width |-> 500, height |-> 64, textX2 |-> 500,
                            textY48 |-> 1596, file |-> "rosh-hashanah-card.png" ] >>

\* C15 as stated: a 1200 x 800 source image gives a canvas 1200 wide and
\* 800 + 130 = 930 high.
C15_Canvas1200x930 ==
    [][ \A image \in { decoding[i] : i \in 1..Len(decoding) } :
          (Composes(image) /\ image.naturalWidth = 1200 /\ image.naturalHeight = 800)
              => /\ lastOp'.canvas[1].width = 1200
                 /\ lastOp'.canvas[1].height = 930 ]_vars

\* C15 amended: a 1200 x 800 source image gives a canvas 1200 wide and
\* 800 + 150 = 950 high (font size 100, band 150).
C15_Canvas1200x950 ==
    [][ \A image \in { decoding[i] : i \in 1..Len(decoding) } :
          (Composes(image) /\ image.naturalWidth = 1200 /\ image.naturalHeight = 800)
              => /\ lastOp'.canvas[1].width = 1200
                 /\ lastOp'.canvas[1].height = 950 ]_vars

C15_Witness ==
    /\ lastOp.op = "download" /\ lastOp.outcome = "composed"
    /\ resultImageSrc = DataURL("image/png", "R0VOMQ")
    /\ lastOp.canvas[1].width = 1200
    /\ lastOp.canvas[1].textY48 = 48 * 875

\* The step is a generate click that passed the handler's guard.
AcceptedClick ==
    lastOp'.op = "generate" /\ lastOp'.outcome \in {"sent", "constructorThrew"}

\* The step is the generate handler ending in its catch block after the await.
FailedSettle ==
    lastOp'.op = "generate" /\ lastOp'.outcome \in {"serviceError", "noImage"}

\* C16 as stated: every accepted generate click submits exactly one request
\* and no other step submits any, so requests and accepted clicks stay equal
\* in number; a failure removes the request and submits none.
C16_OneRequestPerAcceptedClick ==
    [][ /\ AcceptedClick <=> Len(inflight') = Len(inflight) + 1
        /\ ~AcceptedClick => Len(inflight') <= Len(inflight)
        /\ FailedSettle => Len(inflight') = Len(inflight) - 1 ]_vars

\* C16 amended: an accepted generate click submits exactly one request when
\* the service client can be constructed and none when constructing it
\* throws; no other step submits a request, and a failure removes the
\* request and submits none.
C16_AtMostOneRequestPerAcceptedClick ==
    [][ /\ (AcceptedClick /\ lastOp'.outcome = "sent")
              <=> Len(inflight') = Len(inflight) + 1
        /\ (AcceptedClick /\ lastOp'.outcome = "constructorThrew")
              => inflight' = inflight
        /\ ~AcceptedClick => Len(inflight') <= Len(inflight)
        /\ FailedSettle => Len(inflight') = Len(inflight) - 1 ]_vars

\* A request failed: it is gone, nothing is in flight, the upload view is back.
C16_Witness ==
    /\ lastOp.op = "generate" /\ lastOp.outcome = "serviceError"
    /\ inflight = <<>>
    /\ Visible = {"upload"}

\* C18: every step of a download (the click, the decode succeeding, the
\* decode failing) leaves the view, the uploaded image, its MIME type, the
\* style key and the generated image as they were, and the click leaves the
\* result view showing; a failed decode raises the download alert, ends that
\* decode and starts no other.
C18_DownloadLeavesStateUnchanged ==
    [][ lastOp'.op = "download" =>
          /\ viewHidden' = viewHidden
          /\ uploadedImageBase64' = uploadedImageBase64
          /\ uploadedImageType' = uploadedImageType
          /\ selectedStyle' = selectedStyle
          /\ resultImageSrc' = resultImageSrc
          /\ lastOp'.outcome = "started" => Visible' = {"result"}
          /\ lastOp'.outcome = "loadFailed"
                => /\ alertMsg' = "download"
                   /\ Len(decoding') = Len(decoding) - 1 ]_vars

\* A decode failed in the result view: alerted, nothing left decoding.
C18_Witness ==
    /\ lastOp.op = "download" /\ lastOp.outcome = "loadFailed"
    /\ alertMsg = "download"
    /\ decoding = <<>>
    /\ Visible = {"result"}
    /\ Truthy(uploadedImageBase64) /\ Truthy(selectedStyle)

\* C19: the image bytes and the MIME type of every request in flight are
\* those of one and the same selected file.
C19_RequestBytesAndTypeOfOneFile ==
    \A i \in 1..Len(inflight) :
        \E file \in Files :
            /\ inflight[i].data = FileToBase64(file)
            /\ inflight[i].mimeType = file.type

\* C20: whenever the generate control is enabled, the handler's precondition
\* (image bytes, MIME type and style all present) holds, so a click is not
\* rejected with the notification.
C20_EnabledControlPassesGuard ==
    ~generateDisabled =>
        /\ Truthy(uploadedImageBase64)
        /\ Truthy(uploadedImageType)
        /\ Truthy(selectedStyle)

\* C21: as long as no file has been selected since the page loaded or was
\* reset (the file input is empty) and no style is chosen, the stored image
\* bytes are empty, the preview is hidden and the generate control is
\* disabled, whatever reads started before the reset complete meanwhile.
C21_ResetStaysEmpty ==
    (fileInput = <<>> /\ selectedStyle = Null)
        => /\ uploadedImageBase64 = Null
           /\ previewHidden
           /\ generateDisabled

\* The step is a click on the generate button (the handler up to its await).
GenerateClicked ==
    lastOp'.op = "generate"
        /\ lastOp'.outcome \in {"rejected", "sent", "constructorThrew"}

\* C22: a generate click made while the image bytes, the MIME type or the
\* style key is missing raises the precondition alert, submits no request and
\* leaves the view and the stored bytes, MIME type and style as they were.
C22_ClickWithMissingInputRejected ==
    [][ ( /\ GenerateClicked
          /\ \/ ~Truthy(uploadedImageBase64)
             \/ ~Truthy(uploadedImageType)
             \/ ~Truthy(selectedStyle) )
        => /\ lastOp'.outcome = "rejected"
           /\ alertMsg' = "precondition"
           /\ inflight' = inflight
           /\ viewHidden' = viewHidden
           /\ uploadedImageBase64' = uploadedImageBase64
           /\ uploadedImageType' = uploadedImageType
           /\ selectedStyle' = selectedStyle ]_vars

\* A click was rejected: alerted, nothing in flight, still the upload view.
C22_Witness ==
    /\ lastOp.op = "generate" /\ lastOp.outcome = "rejected"
    /\ alertMsg = "precondition"
    /\ ~Truthy(uploadedImageType)
    /\ inflight = <<>>
    /\ Visible = {"upload"}

\* C23: a step that changes the views is one of Upload -> Loading by an
\* accepted generate click, Loading -> Result by a response with an inline
\* image, Loading -> Upload by a failed generation, Result -> Upload by a
\* reset; file selection, file reads, style selection and download steps
\* never change the views.
C23_ViewTransitions ==
    [][ /\ viewHidden' # viewHidden =>
              \/ /\ Visible = {"upload"} /\ Visible' = {"loading"}
                 /\ lastOp'.op = "generate" /\ lastOp'.outcome = "sent"
              \/ /\ Visible = {"loading"} /\ Visible' = {"result"}
                 /\ lastOp'.op = "generate" /\ lastOp'.outcome = "succeeded"
              \/ /\ Visible = {"loading"} /\ Visible' = {"upload"}
                 /\ FailedSettle
              \/ /\ Visible = {"result"} /\ Visible' = {"upload"}
                 /\ lastOp'.op = "reset"
        /\ lastOp'.op \in {"selectFile", "readFile", "styleClick", "download"}
              => viewHidden' = viewHidden ]_vars

\* Back in the upload view by a reset, after a generation that went
\* Upload -> Loading -> Result.
C23_Witness ==
    /\ lastOp.op = "reset"
    /\ Visible = {"upload"}
    /\ resultImageSrc # <<>>
    /\ inflight = <<>>

\* C24: at most one style option is marked selected, an option is marked
\* exactly when its key is the stored style key, and right after a reset no
\* option is marked and the stored style key is empty.
C24_AtMostOneStyleSelected ==
    /\ Cardinality(selectedButtons) <= 1
    /\ \A key \in ButtonStyles : key \in selectedButtons <=> key = selectedStyle
    /\ lastOp.op = "reset" => (selectedButtons = {} /\ selectedStyle = Null)

\* A second style was clicked after a first one: only the second is marked.
C24_Witness ==
    /\ lastOp.op = "styleClick"
    /\ selectedButtons = {"floral"}
    /\ selectedStyle = "floral"
    /\ resultImageSrc # <<>>
====
